---- MODULE Spec2Model ----
(***************************************************************************)
(* Model of the swap-trigger workflow of the trading webhook service:      *)
(* POST /wallets/metamask/webhook (routes/wallets/metamask.ts) and the     *)
(* services it awaits: getBalances, calculateSwapAmount, toWei,            *)
(* performTokenSwap and sendTelegramNotification.                          *)
(*                                                                         *)
(* Every `await` of the code is a suspension point.  One action of the     *)
(* model is "the awaited call settles (value or error) and the handler     *)
(* runs on to its next await", so the calls the handler issues while it    *)
(* runs are part of that action.  The replies of the node, the price feed, *)
(* the aggregation API and the chat API are the environment's choice.      *)
(*                                                                         *)
(* Units: decimal amounts (balances, trade amount) are carried in          *)
(* millionths (6 fractional digits); volatility and log returns in         *)
(* millionths; riskPct in thousandths.  Base-unit integers (wei) are       *)
(* decimal digit strings, as in the code, held as sequences of digits.     *)
(***************************************************************************)
EXTENDS Integers, Sequences, FiniteSets, TLC

\* ------------------------------------------------------------------ bounds
\* longest daily price series the feed returns in the model
MaxPrices == 3

\* ------------------------------------------------------- program constants
NativeDecimals == 18
FixedDigits == 6
TargetVolMicro == 20000
VolFloorMicro == 1000
DefaultRiskMilli == 20

\* the two in-flight invocations of the handler
Procs == {"w1", "w2"}

\* ------------------------------------------------------ JavaScript values
Num(v) == [k |-> "num", v |-> v]
NaN == [k |-> "nan", v |-> 0]
PosInf == [k |-> "inf", v |-> 1]
NegInf == [k |-> "inf", v |-> -1]
IsNum(x) == x.k = "num"
IsNaN(x) == x.k = "nan"
ErrorMarker == [k |-> "Error", v |-> 0]
None == [k |-> "none", v |-> 0]

\* ------------------------------------------- big integers as digit strings
RECURSIVE Digits(_)
Digits(n) == IF n < 10 THEN <<n>> ELSE Digits(n \div 10) \o <<n % 10>>

RECURSIVE Zeros(_)
Zeros(k) == IF k <= 0 THEN << >> ELSE <<0>> \o Zeros(k - 1)

RECURSIVE Pow10(_)
Pow10(k) == IF k <= 0 THEN 1 ELSE 10 * Pow10(k - 1)

RECURSIVE DigitsVal(_)
DigitsVal(d) == IF Len(d) = 0 THEN 0
                ELSE 10 * DigitsVal(SubSeq(d, 1, Len(d) - 1)) + d[Len(d)]

ZeroDigits == <<0>>

\* n * 10^k as a canonical digit string
Scale10(n, k) == IF n = 0 THEN ZeroDigits ELSE Digits(n) \o Zeros(k)

RECURSIVE LexLess(_, _)
LexLess(a, b) == IF Len(a) = 0 THEN FALSE
                 ELSE IF a[1] # b[1] THEN a[1] < b[1]
                 ELSE LexLess(Tail(a), Tail(b))

\* BigInt(a) < BigInt(b) on canonical digit strings
BigIntLess(a, b) == IF Len(a) # Len(b) THEN Len(a) < Len(b) ELSE LexLess(a, b)

\* ----------------------------------------------------------- asset registry
\* TOKEN_ADDRESS_MAP (utils/tokens): symbol -> address, in insertion order
NativeSymbol == "ETH"
NativeSentinel == "0xeeee"
TokenOrder == <<"ETH", "USDT", "DAI">>
TOKEN_ADDRESS_MAP == [ETH |-> NativeSentinel, USDT |-> "0xdac1", DAI |-> "0x6b17"]
Symbols == DOMAIN TOKEN_ADDRESS_MAP
\* decimals() of the deployed token contracts
ContractDecimals == [USDT |-> 6, DAI |-> 18]

\* strings a request body carries in `from` / `to` ("" is a missing field)
RequestSymbols == {"", "ETH", "usdt", "DAI", "BTC"}
ToUpperCase(s) == IF s = "usdt" THEN "USDT" ELSE s
\* values a request body carries in `riskPct`: absent, a number, a non-number
RiskInputs == {None, Num(1000), [k |-> "text", v |-> 0]}
\* riskPct = parseFloat(riskPct) after the destructuring default
ParseRiskPct(r) == IF r = None THEN Num(DefaultRiskMilli)
                   ELSE IF IsNum(r) THEN r ELSE NaN

\* variant: an unreadable balance counts as 0
ParseFloat_ErrorAsZero(entry) == IF IsNum(entry) THEN entry ELSE Num(0)

\* parseFloat of a snapshot entry: "Error" is not a number
ParseFloat(entry) == IF IsNum(entry) THEN entry ELSE NaN

\* --------------------------------------------------- volatility-adjusted sizer
\* A price point of the feed is 0, or a point 1.01^e of a geometric grid, so
\* that ln(p_i / p_(i-1)) is a whole number of grid steps, or an entry
\* without a numeric price (p[1] undefined).
ZeroPrice == [k |-> "zero", v |-> 0]
MissingPrice == [k |-> "missing", v |-> 0]
GridPrice(e) == [k |-> "num", v |-> e]
PricePoints == {ZeroPrice, MissingPrice, GridPrice(0), GridPrice(6)}
\* ln(1.01) in millionths
LogStepMicro == 9950

\* Math.log(cur / prev), in grid steps
LogRatio(cur, prev) ==
  IF cur = MissingPrice \/ prev = MissingPrice THEN NaN
  ELSE IF IsNum(cur) /\ IsNum(prev) THEN Num(cur.v - prev.v)
  ELSE IF IsNum(cur) THEN PosInf
  ELSE IF IsNum(prev) THEN NegInf
  ELSE NaN

RECURSIVE LogReturnsFrom(_, _)
LogReturnsFrom(prices, i) ==
  IF i > Len(prices) THEN << >>
  ELSE LET r == LogRatio(prices[i], prices[i - 1])
       IN (IF IsNaN(r) THEN << >> ELSE <<r>>) \o LogReturnsFrom(prices, i + 1)

calculateLogReturns(prices) == LogReturnsFrom(prices, 2)

RECURSIVE SumSteps(_)
SumSteps(vals) == IF Len(vals) = 0 THEN 0 ELSE vals[1].v + SumSteps(Tail(vals))

RECURSIVE SumSquares(_)
SumSquares(vals) == IF Len(vals) = 0 THEN 0
                    ELSE vals[1].v * vals[1].v + SumSquares(Tail(vals))

RECURSIVE SqrtBetween(_, _, _)
SqrtBetween(x, lo, hi) ==
  IF lo >= hi THEN lo
  ELSE LET mid == (lo + hi + 1) \div 2
       IN IF mid * mid <= x THEN SqrtBetween(x, mid, hi)
          ELSE SqrtBetween(x, lo, mid - 1)

ISqrt(x) == SqrtBetween(x, 0, 40000)

\* population standard deviation, in millionths; NaN over an empty list or
\* a list holding an infinite value
stdDev(values) ==
  IF Len(values) = 0 THEN NaN
  ELSE IF \E i \in 1..Len(values) : ~IsNum(values[i]) THEN NaN
  ELSE LET n == Len(values)
           v == n * SumSquares(values) - SumSteps(values) * SumSteps(values)
       IN Num((LogStepMicro * ISqrt(v * 1000000)) \div (1000 * n))

\* Math.max / Math.min with a fixed second operand
MathMax(x, c) == IF IsNaN(x) THEN NaN ELSE IF x.v > c THEN x ELSE Num(c)

RECURSIVE GCD(_, _)
GCD(a, b) == IF b = 0 THEN a ELSE GCD(b, a % b)

\* round-half-up of a * n / d, for n <= d
MulDivRound(a, n, d) ==
  LET g == GCD(n, d)
      nn == n \div g
      dd == d \div g
      q == a \div dd
      r == a % dd
  IN q * nn + ((2 * r * nn + dd) \div (2 * dd))

\* variant: at or below the target volatility only half the share is traded
SizeAmount_DampenCalm(balance, riskPct, rawVolatility) ==
  LET volatility == MathMax(rawVolatility, VolFloorMicro)
  IN IF IsNaN(volatility) \/ IsNaN(riskPct) \/ IsNaN(balance) THEN NaN
     ELSE IF TargetVolMicro >= volatility.v
          THEN Num(MulDivRound(balance.v, riskPct.v, 2000))
          ELSE Num(MulDivRound(balance.v, riskPct.v * (TargetVolMicro \div 1000),
                               volatility.v))

\* lines 171-205 of calculateSwapAmount: the amount for a balance, a risk
\* percentage and the raw volatility; Number(amount.toFixed(6))
SizeAmount(balance, riskPct, rawVolatility) ==
  LET volatility == MathMax(rawVolatility, VolFloorMicro)
  IN IF IsNaN(volatility) \/ IsNaN(riskPct) \/ IsNaN(balance) THEN NaN
     ELSE IF TargetVolMicro >= volatility.v
          THEN Num(MulDivRound(balance.v, riskPct.v, 1000))
          ELSE Num(MulDivRound(balance.v, riskPct.v * (TargetVolMicro \div 1000),
                               volatility.v))

TradeDirection(fromSymbol) == IF fromSymbol = "USDT" THEN "USDT_TO_ETH" ELSE "ETH_TO_USDT"

\* variant: the balances of the two directions exchanged
SizeFromVolatility_WrongBalance(ethBalance, usdtBalance, tradeDirection, riskPct, rawVolatility) ==
  IF tradeDirection = "USDT_TO_ETH"
  THEN SizeAmount(ethBalance, riskPct, rawVolatility)
  ELSE SizeAmount(usdtBalance, riskPct, rawVolatility)

\* calculateSwapAmount 171-205: the amount for an observed raw volatility
SizeFromVolatility(ethBalance, usdtBalance, tradeDirection, riskPct, rawVolatility) ==
  IF tradeDirection = "USDT_TO_ETH"
  THEN SizeAmount(usdtBalance, riskPct, rawVolatility)
  ELSE SizeAmount(ethBalance, riskPct, rawVolatility)

\* the amount calculateSwapAmount returns once both price fetches succeeded
calculateSwapAmount(ethBalance, usdtBalance, tradeDirection, riskPct, dailyPrices) ==
  SizeFromVolatility(ethBalance, usdtBalance, tradeDirection, riskPct,
                     stdDev(calculateLogReturns(dailyPrices)))

\* --------------------------------------------------------------- unit converter
RECURSIVE TrailingZeros(_)
TrailingZeros(n) == IF n = 0 \/ n % 10 # 0 THEN 0 ELSE 1 + TrailingZeros(n \div 10)

\* fractional digits of String(amount)
FractionDigits(micro) ==
  IF micro % Pow10(FixedDigits) = 0 THEN 0
  ELSE FixedDigits - TrailingZeros(micro % Pow10(FixedDigits))

Throws == [k |-> "throws", v |-> << >>]
Returns(d) == [k |-> "ok", v |-> d]

\* ethers.parseUnits(String(amount), decimals).toString()
parseUnits(amount, decimals) ==
  IF ~IsNum(amount) THEN Throws
  ELSE IF FractionDigits(amount.v) > decimals THEN Throws
  ELSE IF decimals >= FixedDigits
       THEN Returns(Scale10(amount.v, decimals - FixedDigits))
       ELSE Returns(Digits(amount.v \div Pow10(FixedDigits - decimals)))

\* variant: the sentinel address is never recognised
isNativeETH_Never(tokenAddress) == FALSE

\* toWei 18-19
isNativeETH(tokenAddress) == tokenAddress = NativeSentinel

\* ------------------------------------------------------- balance snapshot
\* A Record<string, string> is the set of its <<key, value>> entries.
Keys(rec) == {e[1] : e \in rec}
Put(rec, key, val) == {e \in rec : e[1] # key} \cup {<<key, val>>}
\* rec[key]; a missing key reads as undefined
Get(rec, key) == IF key \in Keys(rec) THEN (CHOOSE e \in rec : e[1] = key)[2] ELSE None

\* raw balances the node reports, in base units
NativeRawBalances == {ZeroDigits, Scale10(2, NativeDecimals)}
TokenRawBalances == [USDT |-> {ZeroDigits, Scale10(2000, 6)}, DAI |-> {Scale10(100, 18)}]

\* ethers.formatUnits(raw, decimals), as a decimal in millionths
formatUnits(raw, decimals) ==
  IF decimals >= FixedDigits
  THEN Num(DigitsVal(SubSeq(raw, 1, Len(raw) - (decimals - FixedDigits))))
  ELSE Num(DigitsVal(raw) * Pow10(FixedDigits - decimals))

formatEther(raw) == formatUnits(raw, NativeDecimals)

\* the next position of `for (const [symbol, address] of Object.entries(...))`
\* at or after i that is not skipped by `if (symbol === nativeSymbol) continue`
RECURSIVE NextToken(_)
NextToken(i) == IF i > Len(TokenOrder) THEN i
                ELSE IF TokenOrder[i] = NativeSymbol THEN NextToken(i + 1)
                ELSE i

\* ------------------------------------------------------------------- state
VARIABLES
  pc,            \* per invocation: the await the handler is suspended at
  fromSymbol,    \* per invocation: fromSymbol of the request
  toSymbol,      \* per invocation: toSymbol of the request
  riskPct,       \* per invocation: parsed riskPct
  balances,      \* per invocation: the balances record getBalances builds
  tokIdx,        \* per invocation: position of getBalances' token loop
  amount,        \* per invocation: result of calculateSwapAmount
  amountWei,     \* per invocation: result of toWei
  allowance,     \* per invocation: result of checkAllowance
  txKind,        \* per invocation: transaction signAndSendTransaction handles
  txGas,         \* per invocation: tx.gas of that transaction
  txNonce,       \* per invocation: nonce the signer obtained for it
  txHash,        \* per invocation: txResponse.hash of the broadcast transaction
  approvalHash,  \* per invocation: approvalHash of performTokenSwap
  swapHash,      \* per invocation: swapHash / the handler's txHash
  error,         \* per invocation: the error the catch block received
  resp,          \* per invocation: the HTTP response sent
  notified,      \* per invocation: messages handed to sendTelegramNotification
  calls,         \* per invocation: external calls issued, in order
  chain,         \* transactions the node accepted, by hash (index)
  botConfigured, \* BOT_TOKEN and CHAT_ID are set
  sizing,        \* one call of the sizer on its own: inputs and result
  feed           \* per invocation: what the price feed replied, in order

vars == <<pc, fromSymbol, toSymbol, riskPct, balances, tokIdx, amount, amountWei,
          allowance, txKind, txGas, txNonce, txHash, approvalHash, swapHash, error,
          resp, notified, calls, chain, botConfigured, sizing, feed>>

reqVars == <<fromSymbol, toSymbol, riskPct>>
balVars == <<balances, tokIdx>>
sizeVars == <<amount, amountWei>>
swapVars == <<allowance, txKind, txGas, txNonce, txHash, approvalHash, swapHash>>

\* the sizer has not been called on its own
NoSizing == [applied |-> "none", ethBalance |-> None, usdtBalance |-> None,
             tradeDirection |-> "", riskPct |-> None, dailyPrices |-> << >>,
             observedVolatility |-> None, outcome |-> "none", resultAmount |-> None,
             lowerVolatility |-> None, lowerAmount |-> None]

NoResp == [status |-> 0, txHash |-> 0, error |-> ""]
NoDigits == << >>

Init ==
  /\ pc = [p \in Procs |-> "idle"]
  /\ fromSymbol = [p \in Procs |-> ""]
  /\ toSymbol = [p \in Procs |-> ""]
  /\ riskPct = [p \in Procs |-> None]
  /\ balances = [p \in Procs |-> {}]
  /\ tokIdx = [p \in Procs |-> 0]
  /\ amount = [p \in Procs |-> None]
  /\ amountWei = [p \in Procs |-> NoDigits]
  /\ allowance = [p \in Procs |-> NoDigits]
  /\ txKind = [p \in Procs |-> ""]
  /\ txGas = [p \in Procs |-> 0]
  /\ txNonce = [p \in Procs |-> 0]
  /\ txHash = [p \in Procs |-> 0]
  /\ approvalHash = [p \in Procs |-> 0]
  /\ swapHash = [p \in Procs |-> 0]
  /\ error = [p \in Procs |-> ""]
  /\ resp = [p \in Procs |-> NoResp]
  /\ notified = [p \in Procs |-> << >>]
  /\ calls = [p \in Procs |-> << >>]
  /\ chain = << >>
  /\ botConfigured \in BOOLEAN
  /\ sizing = NoSizing
  /\ feed = [p \in Procs |-> << >>]

\* number of occurrences of x in a call log
RECURSIVE Count(_, _)
Count(seq, x) == IF Len(seq) = 0 THEN 0
                 ELSE (IF seq[1] = x THEN 1 ELSE 0) + Count(Tail(seq), x)

\* ------------------------------------------------- how an action leaves off
\* the handler suspends at its next await, having issued the calls in c
Continue(p, c, next) ==
  /\ pc' = [pc EXCEPT ![p] = next]
  /\ calls' = [calls EXCEPT ![p] = c]
  /\ UNCHANGED <<error, resp, notified>>

\* sendTelegramNotification: posts only when the bot is configured
TelegramCalls(c) == IF botConfigured THEN Append(c, "telegram") ELSE c

\* telegram.ts 23-26: without bot token or chat id nothing is posted
Delivery == IF botConfigured THEN "pending" ELSE "unconfigured"

\* error?.message as the catch block receives it: the message of the
\* lower-level error, which no function on the way wraps. A failed axios.get
\* carries the same message whichever endpoint was called; the other
\* failures carry the message of the call that threw.
AxiosFailures == {"price_network", "allowance_http", "approve_http", "swap_http"}
ErrorMessage(e) == IF e \in AxiosFailures THEN "Request failed" ELSE e

\* res.status(500).json(...) of the catch block
FailureResponse(e) == [status |-> 500, txHash |-> 0, error |-> ErrorMessage(e)]
\* res.status(200).json(...) at the end of the try block
SuccessResponse(h) == [status |-> 200, txHash |-> h, error |-> ""]

\* variant: the catch block answers without notifying
Catch_Silent(p, c, e) ==
  /\ error' = [error EXCEPT ![p] = e]
  /\ calls' = [calls EXCEPT ![p] = c]
  /\ pc' = [pc EXCEPT ![p] = "responded"]
  /\ resp' = [resp EXCEPT ![p] = FailureResponse(e)]
  /\ UNCHANGED notified

\* an error e reaches the handler's catch block (metamask.ts 120-134)
Catch(p, c, e) ==
  /\ error' = [error EXCEPT ![p] = e]
  /\ notified' = [notified EXCEPT ![p] = Append(@, [kind |-> "failure", balances |-> {},
                                                     delivery |-> Delivery])]
  /\ calls' = [calls EXCEPT ![p] = TelegramCalls(c)]
  /\ IF botConfigured
     THEN /\ pc' = [pc EXCEPT ![p] = "await_notify"]
          /\ UNCHANGED resp
     ELSE /\ pc' = [pc EXCEPT ![p] = "responded"]
          /\ resp' = [resp EXCEPT ![p] = FailureResponse(e)]

\* performTokenSwap returned h to the handler (metamask.ts 96-119)
Succeed(p, c, h) ==
  /\ notified' = [notified EXCEPT ![p] = Append(@, [kind |-> "success", balances |-> balances[p],
                                                     delivery |-> Delivery])]
  /\ calls' = [calls EXCEPT ![p] = TelegramCalls(c)]
  /\ UNCHANGED error
  /\ IF botConfigured
     THEN /\ pc' = [pc EXCEPT ![p] = "await_notify"]
          /\ UNCHANGED resp
     ELSE /\ pc' = [pc EXCEPT ![p] = "responded"]
          /\ resp' = [resp EXCEPT ![p] = SuccessResponse(h)]

\* ------------------------------------------------ POST /webhook: validation
\* variant: only the source symbol is looked up
Unsupported_SourceOnly(fs, ts) == fs \notin Symbols

\* metamask.ts 58-61: !fromToken || !toToken
Unsupported(fs, ts) == fs \notin Symbols \/ ts \notin Symbols

\* metamask.ts 42-73: parse the body, validate, call getBalances
Receive(p) ==
  /\ pc[p] = "idle"
  /\ \A q \in Procs \ {p} : pc[q] = "idle"
  /\ \E from \in RequestSymbols, to \in RequestSymbols, risk \in RiskInputs :
       LET fs == ToUpperCase(from)
           ts == ToUpperCase(to)
       IN /\ riskPct' = [riskPct EXCEPT ![p] = ParseRiskPct(risk)]
          /\ IF from = "" \/ to = ""
             THEN /\ pc' = [pc EXCEPT ![p] = "responded"]
                  /\ resp' = [resp EXCEPT ![p] = [status |-> 400, txHash |-> 0, error |-> "missing"]]
                  /\ UNCHANGED <<fromSymbol, toSymbol, calls>>
             ELSE /\ fromSymbol' = [fromSymbol EXCEPT ![p] = fs]
                  /\ toSymbol' = [toSymbol EXCEPT ![p] = ts]
                  /\ IF Unsupported(fs, ts)
                     THEN /\ pc' = [pc EXCEPT ![p] = "responded"]
                          /\ resp' = [resp EXCEPT ![p] = [status |-> 400, txHash |-> 0, error |-> "unsupported"]]
                          /\ UNCHANGED calls
                     ELSE /\ pc' = [pc EXCEPT ![p] = "await_native"]
                          /\ calls' = [calls EXCEPT ![p] = Append(@, "getBalance")]
                          /\ UNCHANGED resp
  /\ UNCHANGED <<balVars, sizeVars, swapVars, error, notified, chain, botConfigured, sizing, feed>>

\* ---------------------------------------------------------------- getBalances
\* after an entry was written: read the next token, or return to the handler,
\* which calls calculateSwapAmount -> fetchEthPrice (metamask.ts 73-75)
AfterEntry(p, i) ==
  IF NextToken(i) <= Len(TokenOrder)
  THEN /\ tokIdx' = [tokIdx EXCEPT ![p] = NextToken(i)]
       /\ Continue(p, Append(Append(calls[p], "balanceOf"), "decimals"), "await_token")
  ELSE /\ tokIdx' = [tokIdx EXCEPT ![p] = NextToken(i)]
       /\ Continue(p, Append(calls[p], "price_latest"), "await_price")

\* variant: a failed read leaves no entry
RecordError_Skip(rec, symbol) == rec

\* variant: a failed read starts the snapshot over
RecordError_Reset(rec, symbol) == {<<symbol, ErrorMarker>>}

\* getBalances 249-255 / 275-279: the catch block of a failed read
RecordError(rec, symbol) == Put(rec, symbol, ErrorMarker)

\* variant: a failed native read records the marker and returns at once
NativeBalanceReply_SkipTokens(p) ==
  /\ pc[p] = "await_native"
  /\ \/ /\ \E raw \in NativeRawBalances :
             balances' = [balances EXCEPT ![p] = Put(@, NativeSymbol, formatEther(raw))]
        /\ AfterEntry(p, 1)
     \/ /\ balances' = [balances EXCEPT ![p] = RecordError(@, NativeSymbol)]
        /\ AfterEntry(p, Len(TokenOrder) + 1)
  /\ UNCHANGED <<reqVars, sizeVars, swapVars, chain, botConfigured, sizing, feed>>

\* variant: a failed native read is thrown to the caller (no try/catch)
NativeBalanceReply_Throws(p) ==
  /\ pc[p] = "await_native"
  /\ \/ /\ \E raw \in NativeRawBalances :
             balances' = [balances EXCEPT ![p] = Put(@, NativeSymbol, formatEther(raw))]
        /\ AfterEntry(p, 1)
     \/ /\ Catch(p, calls[p], "native_balance")
        /\ UNCHANGED balVars
  /\ UNCHANGED <<reqVars, sizeVars, swapVars, chain, botConfigured, sizing, feed>>

\* getBalances 245-255: provider.getBalance settles
NativeBalanceReply(p) ==
  /\ pc[p] = "await_native"
  /\ \/ \E raw \in NativeRawBalances :
          balances' = [balances EXCEPT ![p] = Put(@, NativeSymbol, formatEther(raw))]
     \/ balances' = [balances EXCEPT ![p] = RecordError(@, NativeSymbol)]
  /\ AfterEntry(p, 1)
  /\ UNCHANGED <<reqVars, sizeVars, swapVars, chain, botConfigured, sizing, feed>>

\* getBalances 262-280: Promise.all([balanceOf, decimals]) settles
TokenBalanceReply(p) ==
  /\ pc[p] = "await_token"
  /\ LET symbol == TokenOrder[tokIdx[p]]
     IN \/ \E raw \in TokenRawBalances[symbol] :
             balances' = [balances EXCEPT ![p] =
                            Put(@, symbol, formatUnits(raw, ContractDecimals[symbol]))]
        \/ balances' = [balances EXCEPT ![p] = RecordError(@, symbol)]
  /\ AfterEntry(p, tokIdx[p] + 1)
  /\ UNCHANGED <<reqVars, sizeVars, swapVars, chain, botConfigured, sizing, feed>>

\* --------------------------------------------------------- calculateSwapAmount
PriceSeries == UNION {[1..n -> PricePoints] : n \in 0..MaxPrices}

\* performTokenSwap 182-203: build swapParams, call checkAllowance
StartSwap(p, c) == Continue(p, Append(c, "allowance"), "await_allowance")

\* metamask.ts 82-85 for an amount: toWei, then performTokenSwap.  For the
\* native asset toWei makes no call; for a token it awaits decimals().
ConvertAndSwap(p, amt) ==
  IF isNativeETH(TOKEN_ADDRESS_MAP[fromSymbol[p]])
  THEN LET wei == parseUnits(amt, NativeDecimals)
       IN IF wei = Throws
          THEN /\ Catch(p, calls[p], "parse_units")
               /\ UNCHANGED amountWei
          ELSE /\ amountWei' = [amountWei EXCEPT ![p] = wei.v]
               /\ StartSwap(p, calls[p])
  ELSE /\ Continue(p, Append(calls[p], "decimals"), "await_decimals")
       /\ UNCHANGED amountWei

\* calculateSwapAmount 163-166: fetchEthPrice settles
PriceReply(p) ==
  /\ pc[p] = "await_price"
  /\ \/ \E e \in {"price_network", "price_empty"} :
          /\ Catch(p, calls[p], e)
          /\ feed' = [feed EXCEPT ![p] = Append(@, e)]
     \/ /\ Continue(p, Append(calls[p], "price_daily"), "await_daily")
        /\ feed' = [feed EXCEPT ![p] = Append(@, "ok")]
  /\ UNCHANGED <<reqVars, balVars, sizeVars, swapVars, chain, botConfigured, sizing>>

\* what the feed delivered, seen from outside the program
SeriesKind(dailyPrices) ==
  IF Len(dailyPrices) = 0 THEN "price_empty"
  ELSE IF \E i \in 1..Len(dailyPrices) : dailyPrices[i] = MissingPrice
       THEN "price_malformed"
       ELSE "ok"

\* calculateSwapAmount 166-205 and metamask.ts 75-85: fetchDailyEthPrices
\* settles, the amount is computed and converted
DailyPricesReply(p) ==
  /\ pc[p] = "await_daily"
  /\ \/ /\ \E e \in {"price_network", "price_malformed"} :
             /\ Catch(p, calls[p], e)
             /\ feed' = [feed EXCEPT ![p] = Append(@, e)]
        /\ UNCHANGED sizeVars
     \/ \E dailyPrices \in PriceSeries :
          /\ feed' = [feed EXCEPT ![p] = Append(@, SeriesKind(dailyPrices))]
          /\ LET amt == calculateSwapAmount(ParseFloat(Get(balances[p], "ETH")),
                                            ParseFloat(Get(balances[p], "USDT")),
                                            TradeDirection(fromSymbol[p]),
                                            riskPct[p], dailyPrices)
             IN /\ amount' = [amount EXCEPT ![p] = amt]
                /\ ConvertAndSwap(p, amt)
  /\ UNCHANGED <<reqVars, balVars, swapVars, chain, botConfigured, sizing>>

\* toWei 21-25: decimals() of the token contract settles
DecimalsReply(p) ==
  /\ pc[p] = "await_decimals"
  /\ \/ /\ Catch(p, calls[p], "decimals")
        /\ UNCHANGED amountWei
     \/ LET wei == parseUnits(amount[p], ContractDecimals[fromSymbol[p]])
        IN IF wei = Throws
           THEN /\ Catch(p, calls[p], "parse_units")
                /\ UNCHANGED amountWei
           ELSE /\ amountWei' = [amountWei EXCEPT ![p] = wei.v]
                /\ StartSwap(p, calls[p])
  /\ UNCHANGED <<reqVars, balVars, amount, swapVars, chain, botConfigured, sizing, feed>>

\* ------------------------------------------------------------ performTokenSwap
\* allowance values the aggregation API reports for an amount
Unlimited == [i \in 1..30 |-> 9]
AllowanceReplies(amt) == {ZeroDigits, amt, Unlimited}
\* gas the node estimates for the approval, gas of the API's swap payload
ApprovalGasEstimates == {46000}
SwapPayloadGas == {210000}

\* variants of the comparison: approval never requested; `<=` for `<`
NeedsApproval_Never(allow, amt) == FALSE

NeedsApproval_OrEqual(allow, amt) == BigIntLess(allow, amt) \/ allow = amt

\* performTokenSwap 205: BigInt(allowance) < BigInt(amountWei)
NeedsApproval(allow, amt) == BigIntLess(allow, amt)

\* the nonce the node reports as next for the wallet ("pending" count)
PendingNonce == Cardinality({chain[h].nonce : h \in DOMAIN chain})

\* signAndSendTransaction 145-146: wallet.sendTransaction first obtains
\* the account's nonce
StartSend(p, c, kind, gas) ==
  /\ txKind' = [txKind EXCEPT ![p] = kind]
  /\ txGas' = [txGas EXCEPT ![p] = gas]
  /\ Continue(p, Append(c, "getNonce"), "await_nonce")

\* variant: an allowance another invocation has observed is reused
AllowanceUsed_Cached(p, reply) ==
  IF \E q \in Procs \ {p} : allowance[q] # NoDigits
  THEN allowance[CHOOSE q \in Procs \ {p} : allowance[q] # NoDigits]
  ELSE reply

\* performTokenSwap 197-205: the allowance compared is the local constant
\* that checkAllowance has just returned
AllowanceUsed(p, reply) == reply

\* performTokenSwap 197-221: checkAllowance settles
AllowanceReply(p) ==
  /\ pc[p] = "await_allowance"
  /\ \/ /\ \E e \in {"allowance_http", "allowance_malformed"} : Catch(p, calls[p], e)
        /\ UNCHANGED allowance
     \/ \E a \in AllowanceReplies(amountWei[p]) :
          /\ allowance' = [allowance EXCEPT ![p] = a]
          /\ IF NeedsApproval(AllowanceUsed(p, a), amountWei[p])
             THEN Continue(p, Append(calls[p], "approve_tx"), "await_approve_tx")
             ELSE Continue(p, Append(calls[p], "swap_tx"), "await_swap_tx")
  /\ UNCHANGED <<reqVars, balVars, sizeVars, txKind, txGas, txNonce, txHash,
                 approvalHash, swapHash, chain, botConfigured, sizing, feed>>

\* buildApprovalTx 102-109: GET /approve/transaction settles
ApprovalTxReply(p) ==
  /\ pc[p] = "await_approve_tx"
  /\ \/ \E e \in {"approve_http", "approve_malformed"} : Catch(p, calls[p], e)
     \/ Continue(p, Append(calls[p], "estimateGas"), "await_estimate")
  /\ UNCHANGED <<reqVars, balVars, sizeVars, swapVars, chain, botConfigured, sizing, feed>>

\* buildApprovalTx 104-113, performTokenSwap 215: estimateGas settles
EstimateGasReply(p) ==
  /\ pc[p] = "await_estimate"
  /\ \/ /\ Catch(p, calls[p], "estimate_gas")
        /\ UNCHANGED <<txKind, txGas>>
     \/ \E gas \in ApprovalGasEstimates : StartSend(p, calls[p], "approval", gas)
  /\ UNCHANGED <<reqVars, balVars, sizeVars, allowance, txNonce, txHash,
                 approvalHash, swapHash, chain, botConfigured, sizing, feed>>

\* variant: after an approval the swap keeps the approval's gas estimate
SwapGas_FromApproval(p, payloadGas) ==
  IF approvalHash[p] # 0 THEN txGas[p] ELSE payloadGas

\* performTokenSwap 221-222, signAndSendTransaction 150: gasLimit is tx.gas
\* of the object buildSwapTx returned
SwapGas(p, payloadGas) == payloadGas

\* buildSwapTx 130-132, performTokenSwap 221-222: GET /swap settles
SwapTxReply(p) ==
  /\ pc[p] = "await_swap_tx"
  /\ \/ /\ \E e \in {"swap_http", "swap_malformed"} : Catch(p, calls[p], e)
        /\ UNCHANGED <<txKind, txGas>>
     \/ \E gas \in SwapPayloadGas : StartSend(p, calls[p], "swap", SwapGas(p, gas))
  /\ UNCHANGED <<reqVars, balVars, sizeVars, allowance, txNonce, txHash,
                 approvalHash, swapHash, chain, botConfigured, sizing, feed>>

\* wallet.sendTransaction (146): the nonce lookup settles, the signed
\* transaction is handed to the node
NonceReply(p) ==
  /\ pc[p] = "await_nonce"
  /\ \/ /\ Catch(p, calls[p], "send_failed")
        /\ UNCHANGED txNonce
     \/ /\ txNonce' = [txNonce EXCEPT ![p] = PendingNonce]
        /\ Continue(p, Append(calls[p], IF txKind[p] = "approval"
                                        THEN "broadcast_approval"
                                        ELSE "broadcast_swap"), "await_broadcast")
  /\ UNCHANGED <<reqVars, balVars, sizeVars, allowance, txKind, txGas, txHash,
                 approvalHash, swapHash, chain, botConfigured, sizing, feed>>

\* hashes of the pending transactions that carry nonce n
PendingWith(n) == {h \in DOMAIN chain : chain[h].nonce = n /\ chain[h].status = "pending"}
NonceMined(n) == \E h \in DOMAIN chain :
                   chain[h].nonce = n /\ chain[h].status \in {"confirmed", "reverted"}

\* variant: a rejected broadcast is sent once more instead of being thrown
BroadcastReply_Retry(p) ==
  /\ pc[p] = "await_broadcast"
  /\ \/ /\ IF Count(calls[p], "getNonce") < 3
           THEN Continue(p, Append(Append(calls[p], "getNonce"),
                                   IF txKind[p] = "approval" THEN "broadcast_approval"
                                   ELSE "broadcast_swap"), "await_broadcast")
           ELSE Catch(p, calls[p], "broadcast_rejected")
        /\ UNCHANGED <<txHash, chain>>
     \/ /\ ~NonceMined(txNonce[p])
        /\ chain' = Append([h \in DOMAIN chain |->
                              IF h \in PendingWith(txNonce[p])
                              THEN [chain[h] EXCEPT !.status = "dropped"]
                              ELSE chain[h]],
                           [by |-> p, kind |-> txKind[p], nonce |-> txNonce[p],
                            gasLimit |-> txGas[p], status |-> "pending"])
        /\ txHash' = [txHash EXCEPT ![p] = Len(chain) + 1]
        /\ Continue(p, calls[p], "await_confirm")
  /\ UNCHANGED <<reqVars, balVars, sizeVars, allowance, txKind, txGas, txNonce,
                 approvalHash, swapHash, botConfigured, sizing, feed>>

\* wallet.sendTransaction (146-154): the node accepts or rejects the
\* transaction.  A nonce that another pending transaction already carries
\* is either rejected or replaces that transaction.
BroadcastReply(p) ==
  /\ pc[p] = "await_broadcast"
  /\ \/ /\ Catch(p, calls[p], "broadcast_rejected")
        /\ UNCHANGED <<txHash, chain>>
     \/ /\ ~NonceMined(txNonce[p])
        /\ chain' = Append([h \in DOMAIN chain |->
                              IF h \in PendingWith(txNonce[p])
                              THEN [chain[h] EXCEPT !.status = "dropped"]
                              ELSE chain[h]],
                           [by |-> p, kind |-> txKind[p], nonce |-> txNonce[p],
                            gasLimit |-> txGas[p], status |-> "pending"])
        /\ txHash' = [txHash EXCEPT ![p] = Len(chain) + 1]
        /\ Continue(p, calls[p], "await_confirm")
  /\ UNCHANGED <<reqVars, balVars, sizeVars, allowance, txKind, txGas, txNonce,
                 approvalHash, swapHash, botConfigured, sizing, feed>>

\* the network includes a pending transaction in a block (nonces in order)
Mine ==
  /\ \E h \in DOMAIN chain, outcome \in {"confirmed", "reverted"} :
       /\ chain[h].status = "pending"
       /\ \A n \in 0..(chain[h].nonce - 1) : NonceMined(n)
       /\ chain' = [chain EXCEPT ![h].status = outcome]
  /\ UNCHANGED <<pc, reqVars, balVars, sizeVars, swapVars, error, resp, notified,
                 calls, botConfigured, sizing, feed>>

\* variants: a wait that returns before the receipt; a wait that ignores
\* the receipt's status
WaitOutcome_NoWait(tx) ==
  IF tx.status \in {"pending", "confirmed"} THEN "resolves" ELSE "throws"

WaitOutcome_IgnoreRevert(tx) ==
  IF tx.status = "pending" THEN "pending" ELSE "resolves"

\* variant: a wait that misses the receipt and never settles
WaitOutcome_NeverSettles(tx) == "pending"

\* txResponse.wait() (155): pending while the transaction is not mined,
\* resolves on a confirmed one, throws on a reverted or replaced one
WaitOutcome(tx) ==
  IF tx.status = "pending" THEN "pending"
  ELSE IF tx.status = "confirmed" THEN "resolves"
  ELSE "throws"

\* signAndSendTransaction 155-157, performTokenSwap 215-225: txResponse.wait()
\* settles
ConfirmReply(p) ==
  /\ pc[p] = "await_confirm"
  /\ WaitOutcome(chain[txHash[p]]) # "pending"
  /\ IF WaitOutcome(chain[txHash[p]]) = "throws"
     THEN /\ Catch(p, calls[p], "confirmation_failed")
          /\ UNCHANGED <<approvalHash, swapHash>>
     ELSE IF txKind[p] = "approval"
     THEN /\ approvalHash' = [approvalHash EXCEPT ![p] = txHash[p]]
          /\ Continue(p, Append(calls[p], "swap_tx"), "await_swap_tx")
          /\ UNCHANGED swapHash
     ELSE /\ swapHash' = [swapHash EXCEPT ![p] = txHash[p]]
          /\ Succeed(p, calls[p], txHash[p])
          /\ UNCHANGED approvalHash
  /\ UNCHANGED <<reqVars, balVars, sizeVars, allowance, txKind, txGas, txNonce,
                 txHash, chain, botConfigured, sizing, feed>>

\* variant: a delivery error is thrown to the handler's catch block
ResponseAfterNotify_Throws(p, outcome) ==
  IF error[p] # "" THEN FailureResponse(error[p])
  ELSE IF outcome = "error" THEN FailureResponse("telegram")
  ELSE SuccessResponse(swapHash[p])

\* metamask.ts 113-119 and 129-133: the response sent once
\* sendTelegramNotification has resolved, whatever the delivery outcome
ResponseAfterNotify(p, outcome) ==
  IF error[p] = "" THEN SuccessResponse(swapHash[p]) ELSE FailureResponse(error[p])

\* telegram.ts 36-54: axios.post settles (ok, not ok, or an error that is
\* caught and logged) and the handler responds
NotifyReply(p) ==
  /\ pc[p] = "await_notify"
  /\ \E outcome \in {"ok", "not_ok", "error"} :
       /\ resp' = [resp EXCEPT ![p] = ResponseAfterNotify(p, outcome)]
       /\ notified' = [notified EXCEPT ![p][Len(notified[p])].delivery = outcome]
  /\ pc' = [pc EXCEPT ![p] = "responded"]
  /\ UNCHANGED <<reqVars, balVars, sizeVars, swapVars, error, calls,
                 chain, botConfigured, sizing, feed>>

\* ------------------------------------------------------------- specification
Step(p) ==
  \/ Receive(p)
  \/ NativeBalanceReply(p)
  \/ TokenBalanceReply(p)
  \/ PriceReply(p)
  \/ DailyPricesReply(p)
  \/ DecimalsReply(p)
  \/ AllowanceReply(p)
  \/ ApprovalTxReply(p)
  \/ EstimateGasReply(p)
  \/ SwapTxReply(p)
  \/ NonceReply(p)
  \/ BroadcastReply(p)
  \/ ConfirmReply(p)
  \/ NotifyReply(p)

Next == (\E p \in Procs : Step(p)) \/ Mine

Spec == Init /\ [][Next]_vars

\* ------------------------------------- two invocations inside performTokenSwap
\* what an invocation holds when it has just entered performTokenSwap
\* (metamask.ts 85) selling `from`: a full snapshot, the default riskPct,
\* the amount sized at baseline volatility and its base-unit conversion
EntryBalances == {<<"ETH", Num(2000000)>>, <<"USDT", Num(2000000000)>>,
                  <<"DAI", Num(100000000)>>}
EntryAmount(from) == calculateSwapAmount(Get(EntryBalances, "ETH"), Get(EntryBalances, "USDT"),
                                         TradeDirection(from), Num(DefaultRiskMilli),
                                         <<GridPrice(0), GridPrice(2), GridPrice(0)>>)
EntryWei(from) == parseUnits(EntryAmount(from),
                             IF isNativeETH(TOKEN_ADDRESS_MAP[from])
                             THEN NativeDecimals ELSE ContractDecimals[from]).v
EntryPairs == {<<"USDT", "ETH">>, <<"ETH", "USDT">>}

ConcInit ==
  /\ \E pair \in [Procs -> EntryPairs] :
       /\ fromSymbol = [p \in Procs |-> pair[p][1]]
       /\ toSymbol = [p \in Procs |-> pair[p][2]]
       /\ amount = [p \in Procs |-> EntryAmount(pair[p][1])]
       /\ amountWei = [p \in Procs |-> EntryWei(pair[p][1])]
  /\ pc = [p \in Procs |-> "await_allowance"]
  /\ riskPct = [p \in Procs |-> Num(DefaultRiskMilli)]
  /\ balances = [p \in Procs |-> EntryBalances]
  /\ tokIdx = [p \in Procs |-> Len(TokenOrder) + 1]
  /\ allowance = [p \in Procs |-> NoDigits]
  /\ txKind = [p \in Procs |-> ""]
  /\ txGas = [p \in Procs |-> 0]
  /\ txNonce = [p \in Procs |-> 0]
  /\ txHash = [p \in Procs |-> 0]
  /\ approvalHash = [p \in Procs |-> 0]
  /\ swapHash = [p \in Procs |-> 0]
  /\ error = [p \in Procs |-> ""]
  /\ resp = [p \in Procs |-> NoResp]
  /\ notified = [p \in Procs |-> << >>]
  /\ calls = [p \in Procs |-> <<"allowance">>]
  /\ chain = << >>
  /\ botConfigured \in BOOLEAN
  /\ sizing = NoSizing
  /\ feed = [p \in Procs |-> <<"ok", "ok">>]

SwapStep(p) ==
  \/ AllowanceReply(p)
  \/ ApprovalTxReply(p)
  \/ EstimateGasReply(p)
  \/ SwapTxReply(p)
  \/ NonceReply(p)
  \/ BroadcastReply(p)
  \/ ConfirmReply(p)
  \/ NotifyReply(p)

ConcNext == (\E p \in Procs : SwapStep(p)) \/ Mine

ConcSpec == ConcInit /\ [][ConcNext]_vars

FairSpec == Spec /\ \A p \in Procs : WF_vars(Step(p))

\* every awaited call resumes, the confirmation wait included: the network
\* eventually mines what is pending
ResumeSpec == Spec /\ (\A p \in Procs : WF_vars(Step(p))) /\ WF_vars(Mine)

\* ------------------------------------------------------------------ properties
Issued(p, x) == \E i \in DOMAIN calls[p] : calls[p][i] = x
\* position of the first call x of invocation p
FirstAt(p, x) == CHOOSE i \in DOMAIN calls[p] :
                   calls[p][i] = x /\ \A j \in 1..(i - 1) : calls[p][j] # x
Before(p, x, y) == Issued(p, x) /\ FirstAt(p, x) < FirstAt(p, y)

TxsOf(p, kind) == {h \in DOMAIN chain : chain[h].by = p /\ chain[h].kind = kind}
AllowanceKnown(p) == allowance[p] # NoDigits
ApprovalConfirmed(p) ==
  /\ approvalHash[p] \in TxsOf(p, "approval")
  /\ chain[approvalHash[p]].status = "confirmed"

\* C1: the swap-build request (GET /swap) is issued only after the allowance
\* query returned allowance >= amountBaseUnits, or after an approval
\* transaction was broadcast and confirmed.
C1_SwapBuildAfterAllowance ==
  \A p \in Procs :
    Issued(p, "swap_tx") =>
      /\ Before(p, "allowance", "swap_tx")
      /\ AllowanceKnown(p)
      /\ \/ ~BigIntLess(allowance[p], amountWei[p])
         \/ /\ ApprovalConfirmed(p)
            /\ Before(p, "broadcast_approval", "swap_tx")

C1_Witness ==
  \E p \in Procs :
    /\ Issued(p, "swap_tx")
    /\ BigIntLess(allowance[p], amountWei[p])
    /\ ApprovalConfirmed(p)

\* C2: selling the native asset, the workflow issues no allowance query and
\* no approval request or approval transaction.
C2_NativeSkipsAllowance ==
  \A p \in Procs :
    (fromSymbol[p] \in Symbols /\ isNativeETH(TOKEN_ADDRESS_MAP[fromSymbol[p]])) =>
      /\ ~Issued(p, "allowance")
      /\ ~Issued(p, "approve_tx")
      /\ ~Issued(p, "broadcast_approval")

\* C3: when the allowance query returned less than amountBaseUnits, a swap
\* transaction is broadcast only after one approval transaction of the same
\* invocation was broadcast and confirmed, and a successful swap has
\* broadcast exactly one approval transaction.
C3_OneApprovalBeforeSwap ==
  \A p \in Procs :
    (AllowanceKnown(p) /\ BigIntLess(allowance[p], amountWei[p])) =>
      /\ \A h \in TxsOf(p, "swap") :
           \E a \in TxsOf(p, "approval") : a < h /\ chain[a].status = "confirmed"
      /\ Issued(p, "broadcast_swap") => Before(p, "broadcast_approval", "broadcast_swap")
      /\ swapHash[p] # 0 =>
           /\ Cardinality(TxsOf(p, "approval")) = 1
           /\ Count(calls[p], "broadcast_approval") = 1

C3_Witness ==
  \E p \in Procs :
    /\ allowance[p] = ZeroDigits
    /\ BigIntLess(allowance[p], amountWei[p])
    /\ swapHash[p] # 0
    /\ resp[p].status = 200

\* C4: when the allowance query returned at least amountBaseUnits, no
\* approval payload is requested and no approval transaction is broadcast;
\* the only transaction of the invocation is the swap.
C4_SufficientAllowanceNoApproval ==
  \A p \in Procs :
    (AllowanceKnown(p) /\ ~BigIntLess(allowance[p], amountWei[p])) =>
      /\ ~Issued(p, "approve_tx")
      /\ ~Issued(p, "estimateGas")
      /\ ~Issued(p, "broadcast_approval")
      /\ TxsOf(p, "approval") = {}
      /\ \A h \in DOMAIN chain : chain[h].by = p => chain[h].kind = "swap"

C4_Witness ==
  \E p \in Procs :
    /\ AllowanceKnown(p)
    /\ allowance[p] = amountWei[p]
    /\ amountWei[p] # ZeroDigits
    /\ swapHash[p] # 0
    /\ TxsOf(p, "approval") = {}

\* the error came out of the approval sub-step
ApprovalStepFailed(p) ==
  \/ error[p] \in {"approve_http", "approve_malformed", "estimate_gas"}
  \/ /\ error[p] \in {"send_failed", "broadcast_rejected", "confirmation_failed"}
     /\ txKind[p] = "approval"

\* C5: if the approval sub-step fails (payload request, gas estimation,
\* signing/broadcast, confirmation), the invocation fails and neither the
\* swap-build request nor a swap broadcast happens.
C5_ApprovalFailureAborts ==
  \A p \in Procs :
    /\ ApprovalStepFailed(p) =>
         /\ ~Issued(p, "swap_tx")
         /\ ~Issued(p, "broadcast_swap")
         /\ TxsOf(p, "swap") = {}
         /\ swapHash[p] = 0
         /\ pc[p] \in {"await_notify", "responded"}
         /\ pc[p] = "responded" => resp[p].status = 500
    /\ (\E a \in TxsOf(p, "approval") : chain[a].status \in {"reverted", "dropped"}) =>
         /\ ~Issued(p, "swap_tx")
         /\ TxsOf(p, "swap") = {}

C5_Witness ==
  \E p \in Procs :
    /\ error[p] = "confirmation_failed"
    /\ txKind[p] = "approval"
    /\ \E a \in TxsOf(p, "approval") : chain[a].status = "reverted"
    /\ resp[p].status = 500

OrchestratorCalls == {"allowance", "approve_tx", "estimateGas", "broadcast_approval",
                      "swap_tx", "broadcast_swap"}

\* C6: no automatic retry: within one invocation each orchestrator step is
\* executed at most once, at most one approval and one swap transaction are
\* broadcast, and a failure at any step ends the invocation with an error.
C6_NoAutomaticRetry ==
  \A p \in Procs :
    /\ \A x \in OrchestratorCalls : Count(calls[p], x) <= 1
    /\ Cardinality(TxsOf(p, "approval")) <= 1
    /\ Cardinality(TxsOf(p, "swap")) <= 1
    /\ error[p] # "" =>
         /\ pc[p] \in {"await_notify", "responded"}
         /\ swapHash[p] = 0
         /\ pc[p] = "responded" => (resp[p].status = 500 /\ resp[p].txHash = 0)

C6_Witness ==
  \E p \in Procs :
    /\ error[p] = "broadcast_rejected"
    /\ txKind[p] = "swap"
    /\ Count(calls[p], "broadcast_swap") = 1
    /\ Count(calls[p], "broadcast_approval") = 1
    /\ pc[p] = "responded"

\* C7: a transaction hash is returned by the orchestrator, and a success
\* response carrying txHash is sent, only for a confirmed swap transaction
\* of that invocation.
C7_HashOnlyWhenConfirmed ==
  \A p \in Procs :
    /\ swapHash[p] # 0 =>
         /\ swapHash[p] \in TxsOf(p, "swap")
         /\ chain[swapHash[p]].status = "confirmed"
    /\ resp[p].txHash # 0 =>
         /\ resp[p].txHash \in TxsOf(p, "swap")
         /\ chain[resp[p].txHash].status = "confirmed"
    /\ resp[p].status = 200 => resp[p].txHash # 0

C7_Witness ==
  \E p \in Procs :
    /\ resp[p].status = 200
    /\ resp[p].txHash \in TxsOf(p, "swap")
    /\ chain[resp[p].txHash].status = "confirmed"

\* C8: invocations signing with the same wallet are serialized at the
\* nonce-assignment point: no two invocations are between nonce assignment
\* and broadcast holding the same nonce.
C8_SerializedAtNonce ==
  \A p \in Procs : \A q \in Procs \ {p} :
    (pc[p] = "await_broadcast" /\ pc[q] = "await_broadcast") => txNonce[p] # txNonce[q]

\* C9: a transaction that was broadcast always leads to the end of the
\* workflow (the hash returned, or a confirmation failure or timeout
\* surfaced), never to an endless wait.
C9_BroadcastLeadsToOutcome ==
  \A p \in Procs : (pc[p] = "await_confirm") ~> (pc[p] = "responded")

BalancesReturned(p) == pc[p] \notin {"idle", "await_native", "await_token"} /\ tokIdx[p] # 0

\* C10: the snapshot getBalances returns has exactly one entry per
\* registered asset, each a formatted value or "Error", whichever reads fail.
C10_OneEntryPerAsset ==
  \A p \in Procs :
    BalancesReturned(p) =>
      /\ Keys(balances[p]) = Symbols
      /\ Cardinality(balances[p]) = Cardinality(Symbols)
      /\ \A e \in balances[p] : IsNum(e[2]) \/ e[2] = ErrorMarker

C10_Witness ==
  \E p \in Procs :
    /\ BalancesReturned(p)
    /\ Get(balances[p], "ETH") = ErrorMarker
    /\ Get(balances[p], "DAI") = ErrorMarker
    /\ IsNum(Get(balances[p], "USDT"))

NumTokens == Cardinality({i \in DOMAIN TokenOrder : TokenOrder[i] # NativeSymbol})
NativeReplied(p) == Issued(p, "getBalance") /\ pc[p] # "await_native"

\* C11: the native-balance read never ends the read: whatever it replies,
\* the token reads follow, and when it failed the returned snapshot holds
\* "Error" for the native asset and an entry for every token.
C11_NativeFailureKeepsReading ==
  \A p \in Procs :
    /\ NativeReplied(p) =>
         /\ NativeSymbol \in Keys(balances[p])
         /\ Issued(p, "balanceOf")
    /\ (BalancesReturned(p) /\ Get(balances[p], NativeSymbol) = ErrorMarker) =>
         /\ Count(calls[p], "balanceOf") = NumTokens
         /\ \A i \in DOMAIN TokenOrder : TokenOrder[i] \in Keys(balances[p])
         /\ Issued(p, "price_latest")

C11_Witness ==
  \E p \in Procs :
    /\ BalancesReturned(p)
    /\ Get(balances[p], NativeSymbol) = ErrorMarker
    /\ IsNum(Get(balances[p], "USDT"))
    /\ IsNum(Get(balances[p], "DAI"))

\* C12 as stated: a failed native-balance read is fatal, no snapshot is
\* returned to the handler.
C12_NativeFailureFatal ==
  \A p \in Procs :
    Get(balances[p], NativeSymbol) = ErrorMarker => ~Issued(p, "price_latest")

\* C12 amended: no balance read failure, native or token, is fatal: once
\* the reads are over the snapshot was returned and the handler went on to
\* the sizer; no error of the invocation comes from a balance read.
C12_NoReadFailureIsFatal ==
  \A p \in Procs :
    (Issued(p, "getBalance") /\ pc[p] \notin {"await_native", "await_token"}) =>
      /\ tokIdx[p] > Len(TokenOrder)
      /\ Issued(p, "price_latest")
      /\ Before(p, "balanceOf", "price_latest")

C12_Witness ==
  \E p \in Procs :
    /\ Get(balances[p], NativeSymbol) = ErrorMarker
    /\ Get(balances[p], "USDT") = ErrorMarker
    /\ Issued(p, "price_latest")
    /\ pc[p] = "await_price"

\* ---------------------------------------------------------------------
\* The sizer on its own: calculateSwapAmount applied to bounded arguments.
\* ---------------------------------------------------------------------
SizerEthBalances == {NaN, Num(0), Num(30), Num(2000000)}
SizerUsdtBalances == {Num(0), Num(3), Num(2000000000)}
SizerRiskPcts == {Num(DefaultRiskMilli), Num(600), Num(1000)}
ObservedVolatilities ==
  {NaN, Num(0), Num(500), Num(1000), Num(10000), Num(20000), Num(30000), Num(80000)}

SizeInit ==
  /\ pc = [p \in Procs |-> "idle"]
  /\ fromSymbol = [p \in Procs |-> ""]
  /\ toSymbol = [p \in Procs |-> ""]
  /\ riskPct = [p \in Procs |-> None]
  /\ balances = [p \in Procs |-> {}]
  /\ tokIdx = [p \in Procs |-> 0]
  /\ amount = [p \in Procs |-> None]
  /\ amountWei = [p \in Procs |-> NoDigits]
  /\ allowance = [p \in Procs |-> NoDigits]
  /\ txKind = [p \in Procs |-> ""]
  /\ txGas = [p \in Procs |-> 0]
  /\ txNonce = [p \in Procs |-> 0]
  /\ txHash = [p \in Procs |-> 0]
  /\ approvalHash = [p \in Procs |-> 0]
  /\ swapHash = [p \in Procs |-> 0]
  /\ error = [p \in Procs |-> ""]
  /\ resp = [p \in Procs |-> NoResp]
  /\ notified = [p \in Procs |-> << >>]
  /\ calls = [p \in Procs |-> << >>]
  /\ chain = << >>
  /\ botConfigured = FALSE
  /\ feed = [p \in Procs |-> << >>]
  /\ \E e \in SizerEthBalances, u \in SizerUsdtBalances, r \in SizerRiskPcts,
        d \in {"USDT_TO_ETH", "ETH_TO_USDT"} :
       sizing = [NoSizing EXCEPT !.ethBalance = e, !.usdtBalance = u,
                                 !.riskPct = r, !.tradeDirection = d]

\* the sizer touches nothing of the handler
HandlerIdle ==
  UNCHANGED <<pc, error, resp, notified, calls, reqVars, balVars, sizeVars, swapVars,
              chain, botConfigured, feed>>

\* calculateSwapAmount 171-205 for one observed raw volatility, applied at
\* most twice to the same arguments; the first application is kept for
\* comparison
SizeAtVolatility ==
  \E vol \in ObservedVolatilities :
    /\ sizing.applied # "series"
    /\ sizing.lowerVolatility = None
    /\ HandlerIdle
    /\ sizing' = [sizing EXCEPT
      !.applied = "volatility",
      !.dailyPrices = << >>,
      !.lowerVolatility = sizing.observedVolatility,
      !.lowerAmount = sizing.resultAmount,
      !.observedVolatility = vol,
      !.outcome = "returned",
      !.resultAmount = SizeFromVolatility(sizing.ethBalance, sizing.usdtBalance,
                                          sizing.tradeDirection, sizing.riskPct, vol)]

\* calculateSwapAmount 166-205 applied once to a fetched series: nothing in
\* it throws
SizeFromSeries ==
  \E dailyPrices \in PriceSeries :
    /\ sizing.applied = "none"
    /\ HandlerIdle
    /\ sizing' = [sizing EXCEPT
      !.applied = "series",
      !.dailyPrices = dailyPrices,
      !.observedVolatility = stdDev(calculateLogReturns(dailyPrices)),
      !.outcome = "returned",
      !.resultAmount = calculateSwapAmount(sizing.ethBalance, sizing.usdtBalance,
                                           sizing.tradeDirection, sizing.riskPct,
                                           dailyPrices)]

SizeNext == SizeAtVolatility \/ SizeFromSeries

SizeSpec == SizeInit /\ [][SizeNext]_vars

\* the balance the trade direction selects, and riskPct x that balance
\* rounded down to the 6th fractional digit
SelectedBalance ==
  IF sizing.tradeDirection = "USDT_TO_ETH" THEN sizing.usdtBalance ELSE sizing.ethBalance
RiskCap ==
  (SelectedBalance.v \div 1000) * sizing.riskPct.v
    + ((SelectedBalance.v % 1000) * sizing.riskPct.v) \div 1000
Sized ==
  /\ sizing.outcome = "returned"
  /\ IsNum(sizing.resultAmount)
  /\ IsNum(SelectedBalance)

\* C13 as stated: the returned amount, rounding to 6 fractional digits
\* included, never exceeds riskPct x the balance selected by the direction.
C13_NeverExceedsRiskShare ==
  Sized => sizing.resultAmount.v <= RiskCap

\* C14: for the same balances, direction and riskPct, a higher observed
\* volatility never gives a larger amount than a lower one.
C14_NonIncreasingInVolatility ==
  (/\ Sized
   /\ IsNum(sizing.lowerAmount)
   /\ IsNum(sizing.lowerVolatility)
   /\ IsNum(sizing.observedVolatility)
   /\ sizing.lowerVolatility.v <= sizing.observedVolatility.v)
  => sizing.resultAmount.v <= sizing.lowerAmount.v

C14_Witness ==
  /\ Sized
  /\ IsNum(sizing.lowerAmount)
  /\ sizing.lowerVolatility = Num(20000)
  /\ sizing.observedVolatility = Num(80000)
  /\ sizing.resultAmount.v < sizing.lowerAmount.v

\* the share of riskPct that the volatility leaves, as a fraction of
\* thousandths: numerator and denominator of riskPct x min(1, 0.02 / max(vol, 0.001))
AdjustedVolatility ==
  IF sizing.observedVolatility.v > VolFloorMicro
  THEN sizing.observedVolatility.v ELSE VolFloorMicro
ShareNum ==
  IF AdjustedVolatility <= TargetVolMicro THEN sizing.riskPct.v
  ELSE sizing.riskPct.v * (TargetVolMicro \div 1000)
ShareDen ==
  IF AdjustedVolatility <= TargetVolMicro THEN 1000 ELSE AdjustedVolatility
Abs(x) == IF x < 0 THEN -x ELSE x

\* C15: the amount is balance x riskPct x min(1, 0.02 / max(vol, 0.001))
\* rounded to 6 fractional digits, on the stable balance for USDT_TO_ETH and
\* on the volatile balance otherwise; with {ETH 2.0, USDT 2000}, USDT_TO_ETH
\* and riskPct 0.02 it is 40.000000 at volatility 0.02 and 10.000000 at 0.08.
C15_SizeFormula ==
  /\ (Sized /\ IsNum(sizing.observedVolatility)) =>
       LET whole == (SelectedBalance.v \div ShareDen) * ShareNum
           rest == (SelectedBalance.v % ShareDen) * ShareNum
       IN Abs((sizing.resultAmount.v - whole) * ShareDen - rest) <= ShareDen \div 2
  /\ (/\ sizing.outcome = "returned"
      /\ sizing.ethBalance = Num(2000000)
      /\ sizing.usdtBalance = Num(2000000000)
      /\ sizing.tradeDirection = "USDT_TO_ETH"
      /\ sizing.riskPct = Num(DefaultRiskMilli)) =>
       /\ sizing.observedVolatility = Num(20000) => sizing.resultAmount = Num(40000000)
       /\ sizing.observedVolatility = Num(80000) => sizing.resultAmount = Num(10000000)

C15_Witness ==
  /\ sizing.outcome = "returned"
  /\ sizing.ethBalance = Num(2000000)
  /\ sizing.usdtBalance = Num(2000000000)
  /\ sizing.tradeDirection = "USDT_TO_ETH"
  /\ sizing.riskPct = Num(DefaultRiskMilli)
  /\ sizing.lowerVolatility = Num(20000)
  /\ sizing.lowerAmount = Num(40000000)
  /\ sizing.observedVolatility = Num(80000)
  /\ sizing.resultAmount = Num(10000000)

\* C16 as stated: with a series of fewer than 2 points the sizer fails with
\* PriceDataUnavailable and returns no amount.
C16_ShortSeriesFails ==
  (sizing.applied = "series" /\ Len(sizing.dailyPrices) < 2) =>
    /\ sizing.outcome = "threw"
    /\ sizing.resultAmount = None

PriceFailures == {"price_network", "price_empty", "price_malformed"}
FeedFailed(p) == \E i \in 1..Len(feed[p]) : feed[p][i] \in PriceFailures
SwapCalls == {"allowance", "approve_tx", "estimateGas", "swap_tx", "getNonce",
              "broadcast_approval", "broadcast_swap"}

\* C17 as stated: when a price fetch fails on the network or delivers an
\* empty or malformed series, the invocation makes no allowance query, no
\* approval or swap build request and no broadcast, and it answers with a
\* failure.
C17_PriceFailureStopsSwap ==
  \A p \in Procs :
    FeedFailed(p) =>
      /\ \A i \in 1..Len(calls[p]) : calls[p][i] \notin SwapCalls
      /\ pc[p] = "responded" => resp[p].status = 500

C19_PositiveAmountDistinctAssets ==
  \A p \in Procs :
    Issued(p, "allowance") =>
      /\ amountWei[p] # NoDigits
      /\ \E i \in DOMAIN amountWei[p] : amountWei[p][i] # 0
      /\ fromSymbol[p] # toSymbol[p]

\* riskPct x balance rounded down to the 6th fractional digit
RiskShare(balance, risk) ==
  (balance.v \div 1000) * risk.v + ((balance.v % 1000) * risk.v) \div 1000

\* C20 as stated: for every supported source symbol the amount handed to
\* the unit converter is computed from the balance of that source asset:
\* that balance is a number and the amount is at most riskPct x that
\* balance, up to the last rounded digit.
C20_AmountFromSourceBalance ==
  \A p \in Procs :
    IsNum(amount[p]) =>
      LET source == ParseFloat(Get(balances[p], fromSymbol[p]))
      IN /\ IsNum(source)
         /\ amount[p].v <= RiskShare(source, riskPct[p]) + 1

DeliveryFailures == {"not_ok", "error", "unconfigured"}
LastNotified(p) == notified[p][Len(notified[p])]

\* C21: whatever becomes of the notification (delivered, refused, request
\* error, bot not configured), the endpoint answers with the outcome of the
\* swap: 200 with the confirmed swap's hash, or 500 with the swap's error.
C21_NotificationNeverChangesOutcome ==
  \A p \in Procs :
    (pc[p] = "responded" /\ notified[p] # << >>) =>
      /\ LastNotified(p).delivery \in DeliveryFailures \cup {"ok"}
      /\ LastNotified(p).kind = "success" =>
           /\ error[p] = ""
           /\ swapHash[p] # 0
           /\ resp[p] = SuccessResponse(swapHash[p])
      /\ LastNotified(p).kind = "failure" =>
           /\ error[p] # ""
           /\ resp[p] = FailureResponse(error[p])

C21_Witness ==
  \E p \in Procs :
    /\ pc[p] = "responded"
    /\ notified[p] # << >>
    /\ LastNotified(p).kind = "success"
    /\ LastNotified(p).delivery = "error"
    /\ resp[p].status = 200

ErrorTags ==
  {"price_network", "price_empty", "price_malformed", "decimals", "parse_units",
   "allowance_http", "allowance_malformed", "approve_http", "approve_malformed",
   "estimate_gas", "swap_http", "swap_malformed", "send_failed",
   "broadcast_rejected", "confirmation_failed"}

\* the stage of the workflow in which an error arises
StageOf(e) ==
  CASE e \in {"price_network", "price_empty", "price_malformed"} -> "sizing"
    [] e \in {"decimals", "parse_units"} -> "unit conversion"
    [] e \in {"allowance_http", "allowance_malformed"} -> "allowance check"
    [] e \in {"approve_http", "approve_malformed", "estimate_gas"} -> "approval"
    [] e \in {"swap_http", "swap_malformed"} -> "swap build"
    [] e \in {"send_failed", "broadcast_rejected"} -> "broadcast"
    [] e = "confirmation_failed" -> "confirmation"
    [] OTHER -> "none"

\* C22 as stated: the failure payload names the stage that failed: no error
\* of another stage yields the same payload.
C22_FailurePayloadNamesStage ==
  \A p \in Procs :
    resp[p].status = 500 =>
      \A e \in ErrorTags :
        FailureResponse(e) = resp[p] => StageOf(e) = StageOf(error[p])

TxBy(p) == {h \in DOMAIN chain : chain[h].by = p}

\* the calls issued after the sizer's last fetch: those of toWei and of
\* performTokenSwap
ConverterCalls(p) ==
  IF Issued(p, "price_daily")
  THEN SubSeq(calls[p], FirstAt(p, "price_daily") + 1, Len(calls[p]))
  ELSE << >>

\* C23: the unit converter never queries the node for the native asset and
\* converts with 18 decimals; for a token it queries decimals() exactly once
\* before converting; when that query fails the invocation fails, nothing is
\* converted, no allowance is queried and no transaction is broadcast.
C23_DecimalsQuery ==
  \A p \in Procs :
    /\ Count(ConverterCalls(p), "decimals") <= 1
    /\ fromSymbol[p] = NativeSymbol =>
         /\ Count(ConverterCalls(p), "decimals") = 0
         /\ amountWei[p] # NoDigits => amountWei[p] = parseUnits(amount[p], 18).v
    /\ (fromSymbol[p] # NativeSymbol /\ amountWei[p] # NoDigits) =>
         /\ Count(ConverterCalls(p), "decimals") = 1
         /\ ConverterCalls(p)[1] = "decimals"
    /\ error[p] = "decimals" =>
         /\ amountWei[p] = NoDigits
         /\ ~Issued(p, "allowance")
         /\ TxBy(p) = {}
         /\ pc[p] = "responded" => resp[p].status = 500

C23_Witness ==
  \E p \in Procs :
    /\ fromSymbol[p] = "USDT"
    /\ error[p] = "decimals"
    /\ pc[p] = "responded"
    /\ Count(ConverterCalls(p), "decimals") = 1

SwapTxs(p) == {h \in DOMAIN chain : chain[h].by = p /\ chain[h].kind = "swap"}
ApprovalTxs(p) == {h \in DOMAIN chain : chain[h].by = p /\ chain[h].kind = "approval"}

\* C24 as stated: after an approval in the same invocation the swap
\* transaction carries the approval step's gas estimate; without an
\* approval it carries the gas of the API's swap payload.
C24_SwapGasFromApprovalStep ==
  \A p \in Procs : \A h \in SwapTxs(p) :
    IF ApprovalTxs(p) # {}
    THEN chain[h].gasLimit \in ApprovalGasEstimates
    ELSE chain[h].gasLimit \in SwapPayloadGas

\* C24 amended: every transaction carries the gas of its own payload: the
\* swap transaction the gas of the API's swap payload, whether or not an
\* approval preceded it, and the approval transaction the node's estimate.
C24_GasOfOwnPayload ==
  \A p \in Procs :
    /\ \A h \in SwapTxs(p) : chain[h].gasLimit \in SwapPayloadGas
    /\ \A h \in ApprovalTxs(p) : chain[h].gasLimit \in ApprovalGasEstimates

C24_Witness ==
  \E p \in Procs : \E a \in ApprovalTxs(p), h \in SwapTxs(p) :
    /\ chain[a].status = "confirmed"
    /\ chain[a].gasLimit = 46000
    /\ chain[h].gasLimit = 210000

\* the entries of a snapshot other than that of one symbol
OtherEntries(rec, symbol) == {e \in rec : e[1] # symbol}

\* C25: the step that settles one token's read, failed or not, writes that
\* token's entry and leaves every other entry of the snapshot as it was;
\* after a failure the entry is "Error" and the next token is read (or, past
\* the last token, the snapshot is returned).
C25_TokenFailureTouchesOneEntry ==
  [][\A p \in Procs :
       (pc[p] = "await_token" /\ <<pc[p], balances[p], tokIdx[p]>>' # <<pc[p], balances[p], tokIdx[p]>>) =>
         LET symbol == TokenOrder[tokIdx[p]]
         IN /\ OtherEntries(balances'[p], symbol) = OtherEntries(balances[p], symbol)
            /\ symbol \in Keys(balances'[p])
            /\ tokIdx'[p] = NextToken(tokIdx[p] + 1)
            /\ Get(balances'[p], symbol) = ErrorMarker =>
                 IF tokIdx'[p] <= Len(TokenOrder)
                 THEN pc'[p] = "await_token" /\ Len(calls'[p]) = Len(calls[p]) + 2
                 ELSE pc'[p] = "await_price"]_vars

C25_Witness ==
  \E p \in Procs :
    /\ BalancesReturned(p)
    /\ IsNum(Get(balances[p], NativeSymbol))
    /\ Get(balances[p], "USDT") = ErrorMarker
    /\ IsNum(Get(balances[p], "DAI"))

\* C26 as stated: of a series with a zero or missing price point the
\* log-return list holds finite values only, and the volatility and the
\* amount computed from a non-empty list are finite.
C26_NonFiniteReturnsDiscarded ==
  (/\ sizing.applied = "series"
   /\ \E i \in DOMAIN sizing.dailyPrices :
        sizing.dailyPrices[i] \in {ZeroPrice, MissingPrice})
  => LET returns == calculateLogReturns(sizing.dailyPrices)
     IN /\ \A i \in DOMAIN returns : IsNum(returns[i])
        /\ (returns # << >>) =>
             /\ IsNum(sizing.observedVolatility)
             /\ (IsNum(SelectedBalance) /\ IsNum(sizing.riskPct)) =>
                  IsNum(sizing.resultAmount)

\* C27 as stated: the balances in a success notification were read after
\* the swap transaction was confirmed: a balance read follows the swap's
\* broadcast in the invocation's calls.
C27_NotificationHasResultingBalances ==
  \A p \in Procs :
    (notified[p] # << >> /\ LastNotified(p).kind = "success") =>
      /\ Issued(p, "broadcast_swap")
      /\ \E i \in DOMAIN calls[p] :
           /\ calls[p][i] = "getBalance"
           /\ i > FirstAt(p, "broadcast_swap")

Decided(p) == pc[p] \notin {"idle", "await_allowance"} /\ AllowanceKnown(p)

\* C28: every invocation queries the allowance itself, once, before it
\* decides on the approval, and the decision follows from the value that
\* its own query returned, whatever other invocations have observed.
C28_AllowanceNeverCached ==
  \A p \in Procs :
    /\ (Issued(p, "approve_tx") \/ Issued(p, "swap_tx")) =>
         /\ Count(calls[p], "allowance") = 1
         /\ FirstAt(p, "allowance") < Len(calls[p])
         /\ AllowanceKnown(p)
    /\ Decided(p) =>
         /\ BigIntLess(allowance[p], amountWei[p]) <=> Issued(p, "approve_tx")
         /\ ~BigIntLess(allowance[p], amountWei[p]) => Issued(p, "swap_tx")

C28_Witness ==
  \E p \in Procs : \E q \in Procs \ {p} :
    /\ fromSymbol[p] = fromSymbol[q]
    /\ Decided(p) /\ Decided(q)
    /\ allowance[p] = Unlimited
    /\ allowance[q] = ZeroDigits
    /\ Issued(q, "approve_tx")
    /\ ~Issued(p, "approve_tx")

\* the snapshot entry that the sizer multiplies for an invocation
SizingSymbol(p) == IF fromSymbol[p] = "USDT" THEN "USDT" ELSE NativeSymbol

\* C29: when the balance entry used for sizing is "Error", the invocation
\* fails: nothing is converted, no allowance is queried and no transaction
\* is broadcast.
C29_ErrorBalanceStopsSwap ==
  \A p \in Procs :
    (BalancesReturned(p) /\ Get(balances[p], SizingSymbol(p)) = ErrorMarker) =>
      /\ amountWei[p] = NoDigits
      /\ ~Issued(p, "allowance")
      /\ TxBy(p) = {}
      /\ amount[p] # None => IsNaN(amount[p])
      /\ pc[p] = "responded" => resp[p].status = 500

C29_Witness ==
  \E p \in Procs :
    /\ BalancesReturned(p)
    /\ fromSymbol[p] = "USDT"
    /\ Get(balances[p], "USDT") = ErrorMarker
    /\ IsNum(Get(balances[p], NativeSymbol))
    /\ feed[p] = <<"ok", "ok">>
    /\ error[p] = "parse_units"
    /\ pc[p] = "responded"

OutcomeKnown(p) == error[p] # "" \/ swapHash[p] # 0
SwapConfirmed(p) ==
  /\ swapHash[p] \in SwapTxs(p)
  /\ chain[swapHash[p]].status = "confirmed"

\* C30: an invocation hands exactly one message to the notifier, at the
\* moment its outcome is known and as its last call: a success message only
\* when the swap transaction is confirmed, a failure message otherwise; an
\* invocation rejected by validation hands none.
C30_OneNotificationAfterOutcome ==
  \A p \in Procs :
    /\ Len(notified[p]) <= 1
    /\ Count(calls[p], "telegram") = IF botConfigured THEN Len(notified[p]) ELSE 0
    /\ OutcomeKnown(p) <=> notified[p] # << >>
    /\ notified[p] # << >> =>
         /\ fromSymbol[p] \in Symbols /\ toSymbol[p] \in Symbols
         /\ botConfigured => calls[p][Len(calls[p])] = "telegram"
         /\ IF SwapConfirmed(p) /\ error[p] = ""
            THEN LastNotified(p).kind = "success"
            ELSE LastNotified(p).kind = "failure" /\ error[p] # ""
    /\ pc[p] = "responded" =>
         IF resp[p].status = 400 THEN notified[p] = << >> /\ calls[p] = << >>
                                 ELSE Len(notified[p]) = 1

C30_Witness ==
  \E p \in Procs :
    /\ pc[p] = "responded"
    /\ botConfigured
    /\ Len(notified[p]) = 1
    /\ LastNotified(p).kind = "failure"
    /\ error[p] = "confirmation_failed"
    /\ Count(calls[p], "telegram") = 1

====
